---------------------------- MODULE Spec2Model ----------------------------
(***************************************************************************)
(* Monte Carlo Tree Search planner of Assgn3/assignment/mcts.py:           *)
(* MCTSConfig, Node, MCTS.__init__, MCTS.search, MCTS._select_uct and      *)
(* MCTS._rollout, run against a small MDP that stands for the gridworld    *)
(* module the planner imports.                                             *)
(*                                                                         *)
(* Numbers.  Returns are floats in the program.  Here gamma is a multiple  *)
(* of 1/2 (cfg.gamma = 1 is 0.5, 2 is 1.0, 3 is 1.5) and every return is   *)
(* an integer count of 1/Unit, which is exact for the at most MaxDepth     *)
(* discount steps of one rollout.  c_uct is in tenths (14 is 1.4).  UCT    *)
(* scores are in thousandths, with ln and sqrt rounded down.               *)
(***************************************************************************)
EXTENDS Integers, Sequences, FiniteSets, TLC

\* Largest rollout budget and depth cap the configurations are drawn from,
\* and the number of search calls made on one planner.
MaxRollouts == 3
MaxDepth == 3
MaxCalls == 2
\* Largest visit count of a child in the stand-alone run of action extraction.
MaxVisits == 2

VARIABLES
  cfg,           \* MCTSConfig: [gamma, c_uct, rollouts, max_depth]
  root_state,    \* the argument of the current search call
  tree,          \* the Nodes of the current call, in creation order; tree[1] is root
  pc,            \* where the planner is
  iter,          \* iterations of the for loop completed in this call
  node,          \* search's local `node` (an index into tree)
  path,          \* search's local `path` (indices into tree)
  depth,         \* search's local `depth`
  s,             \* _rollout's local `s`
  rdepth,        \* _rollout's local `depth`
  total_return,  \* _rollout's local `total_return`, in 1/Unit
  discount,      \* _rollout's local `discount`, in 1/Unit
  value,         \* search's local `value`, in 1/Unit
  best_a,        \* the action search returned (None until it returns)
  err,           \* the exception search raised (None when none)
  calls,         \* search calls started on this planner
  draws          \* uses of self.rng since the current call began

vars == <<cfg, root_state, tree, pc, iter, node, path, depth, s, rdepth,
          total_return, discount, value, best_a, err, calls, draws>>

None == "None"

(***************************************************************************)
(* The environment: the MDP interface the planner consumes.                *)
(***************************************************************************)
States == {"s0", "s1", "s2", "s3", "s4", "s5"}

\* s0: the two-action root; A leads to s1 with reward 10, B to s2 with
\* reward 0.  s1: terminal.  s2: terminal, yet still enumerates actions.
\* s3: not terminal, no action.  s4, s5: a stochastic cycle that never
\* ends, with one exit into s3 and one into s1.
is_terminal(st) == st \in {"s1", "s2"}

actions(st) ==
  CASE st = "s0" -> <<"A", "B">>
    [] st = "s2" -> <<"B", "A">>
    [] st = "s4" -> <<"A">>
    [] st = "s5" -> <<"B", "A">>
    [] OTHER  -> <<>>

\* The set of <<next_state, reward>> outcomes one sample may yield.
sample_next_state_and_reward(st, a) ==
  CASE st = "s0" /\ a = "A" -> {<<"s1", 10>>}
    [] st = "s0" /\ a = "B" -> {<<"s2", 0>>}
    [] st = "s4" /\ a = "A" -> {<<"s4", 1>>, <<"s5", 0>>}
    [] st = "s5" /\ a = "B" -> {<<"s4", 2>>}
    [] st = "s5" /\ a = "A" -> {<<"s3", 0>>, <<"s1", -1>>}
    [] OTHER -> {<<st, 0>>}

(***************************************************************************)
(* Arithmetic.                                                             *)
(***************************************************************************)
\* 1.0 as a count of the return unit.
Unit == 2 ^ MaxDepth

\* floor(1000 * ln n) for n in 1..32, extended by ln(2n) = ln 2 + ln n.
LnTable ==
  <<0, 693, 1098, 1386, 1609, 1791, 1945, 2079, 2197, 2302, 2397, 2484,
    2564, 2639, 2708, 2772, 2833, 2890, 2944, 2995, 3044, 3091, 3135,
    3178, 3218, 3258, 3295, 3332, 3367, 3401, 3433, 3465>>

RECURSIVE LnMilli(_)
LnMilli(n) == IF n <= Len(LnTable) THEN LnTable[n] ELSE 693 + LnMilli(n \div 2)

RECURSIVE ISqrt(_)
ISqrt(x) ==
  IF x < 2 THEN x
  ELSE LET r == 2 * ISqrt(x \div 4)
       IN IF (r + 1) * (r + 1) <= x THEN r + 1 ELSE r

(***************************************************************************)
(* Node.                                                                   *)
(***************************************************************************)

\* Faulty variant: a Node is created with one visit already counted.
NodeVisitedOnce(st, parent) ==
  [state |-> st, parent |-> parent, children |-> <<>>, visits |-> 1,
   value_sum |-> 0]

\* Node.__init__: parent is None or <<parent index, action>>; children is
\* the dict as its items in insertion order, <<action, child index>>.
Node(st, parent) ==
  [state |-> st, parent |-> parent, children |-> <<>>, visits |-> 0,
   value_sum |-> 0]

\* Node.q in thousandths.
q(n) == IF n.visits = 0 THEN 0 ELSE (n.value_sum * 1000) \div (Unit * n.visits)

Keys(children) == {children[i][1] : i \in 1..Len(children)}

\* node.children[action]
ChildOf(n, a) ==
  LET i == CHOOSE j \in 1..Len(n.children) : n.children[j][1] = a
  IN n.children[i][2]

(***************************************************************************)
(* MCTS._select_uct                                                        *)
(***************************************************************************)
\* The score of one child, in thousandths.
UctScore(c_uct, parent, child) ==
  q(child)
    + (c_uct * ISqrt((LnMilli(parent.visits) * 1000) \div child.visits)) \div 10

\* The for loop from item i on; best_action = None stands for best_score =
\* -inf.  "ValueError" is math.log(0).
RECURSIVE UctScan(_, _, _, _, _, _)
UctScan(t, c_uct, n, i, best_action, best_score) ==
  IF i > Len(t[n].children) THEN best_action
  ELSE LET a == t[n].children[i][1]
           child == t[t[n].children[i][2]]
       IN IF child.visits = 0 THEN a
          ELSE IF t[n].visits = 0 THEN "ValueError"
          ELSE LET score == UctScore(c_uct, t[n], child)
               IN IF best_action = None \/ score > best_score
                    THEN UctScan(t, c_uct, n, i + 1, a, score)
                    ELSE UctScan(t, c_uct, n, i + 1, best_action, best_score)

\* Faulty variant: best_score starts at +inf, so no score ever beats it and
\* only an unvisited child is ever returned.
select_uct_inf(t, c_uct, n) ==
  LET ch == t[n].children
      zero == {i \in 1..Len(ch) : t[ch[i][2]].visits = 0}
  IN IF zero # {}
       THEN ch[CHOOSE i \in zero : \A j \in zero : i <= j][1]
       ELSE IF t[n].visits = 0 THEN "ValueError" ELSE None


\* Faulty variant: the comparison is >=, so the last child at the best
\* score wins.
RECURSIVE UctScanLast(_, _, _, _, _, _)
UctScanLast(t, c_uct, n, i, best_action, best_score) ==
  IF i > Len(t[n].children) THEN best_action
  ELSE LET a == t[n].children[i][1]
           child == t[t[n].children[i][2]]
       IN IF child.visits = 0 THEN a
          ELSE IF t[n].visits = 0 THEN "ValueError"
          ELSE LET score == UctScore(c_uct, t[n], child)
               IN IF best_action = None \/ score >= best_score
                    THEN UctScanLast(t, c_uct, n, i + 1, a, score)
                    ELSE UctScanLast(t, c_uct, n, i + 1, best_action, best_score)

select_uct_last(t, c_uct, n) == UctScanLast(t, c_uct, n, 1, None, 0)

select_uct(t, c_uct, n) == UctScan(t, c_uct, n, 1, None, 0)

(***************************************************************************)
(* MCTSConfig and MCTS.__init__                                            *)
(***************************************************************************)
\* The configurations explored.  The dataclass accepts any field values;
\* max_depth = 0, rollouts = 0, gamma = 1.5 and c_uct = -1.0 are among them.
\* The budget of 20 is the one of the two-action scenario.
Configs ==
  [gamma : {1, 2, 3}, c_uct : {-10, 0, 14},
   rollouts : (0..MaxRollouts) \cup {20}, max_depth : 0..MaxDepth]

\* The root states a search is explored from under configuration c: the
\* budget of 20 only from the two-action root.
Explored(c, st) == c.rollouts <= MaxRollouts \/ st = "s0"

Init ==
  /\ cfg \in Configs
  /\ root_state = None
  /\ tree = <<>>
  /\ pc = "config"
  /\ iter = 0
  /\ node = 0
  /\ path = <<>>
  /\ depth = 0
  /\ s = None
  /\ rdepth = 0
  /\ total_return = 0
  /\ discount = 0
  /\ value = 0
  /\ best_a = None
  /\ err = None
  /\ calls = 0
  /\ draws = 0

\* MCTS.__init__ stores mdp, cfg, rng and heuristic; it checks nothing.
MCTS_init ==
  /\ pc = "config"
  /\ pc' = "idle"
  /\ UNCHANGED <<cfg, root_state, tree, iter, node, path, depth, s, rdepth,
                 total_return, discount, value, best_a, err, calls, draws>>

(***************************************************************************)
(* MCTS.search                                                             *)
(***************************************************************************)
\* search(root_state) is called: root = Node(root_state).
SearchCall ==
  /\ pc \in {"idle", "returned", "raised"}
  /\ calls < MaxCalls
  /\ \E st \in States :
       /\ Explored(cfg, st)
       /\ root_state' = st
       /\ tree' = <<Node(st, None)>>
  /\ pc' = "for"
  /\ iter' = 0
  /\ node' = 0
  /\ path' = <<>>
  /\ depth' = 0
  /\ s' = None
  /\ rdepth' = 0
  /\ total_return' = 0
  /\ discount' = 0
  /\ value' = 0
  /\ best_a' = None
  /\ err' = None
  /\ calls' = calls + 1
  /\ draws' = 0
  /\ UNCHANGED cfg

\* Faulty variant: one iteration too many.
ForGuardInclusive(c, k) == k <= c.rollouts

\* for _ in range(self.cfg.rollouts): whether another iteration runs.
ForGuard(c, k) == k < c.rollouts

\* One more iteration begins: node = root, path = [node], depth = 0.
IterBegin ==
  /\ pc = "for"
  /\ ForGuard(cfg, iter)
  /\ node' = 1
  /\ path' = <<1>>
  /\ depth' = 0
  /\ pc' = "select"
  /\ UNCHANGED <<cfg, root_state, tree, iter, s, rdepth, total_return,
                 discount, value, best_a, err, calls, draws>>

\* The range is exhausted.
ForExit ==
  /\ pc = "for"
  /\ ~ForGuard(cfg, iter)
  /\ pc' = "extract"
  /\ UNCHANGED <<cfg, root_state, tree, iter, node, path, depth, s, rdepth,
                 total_return, discount, value, best_a, err, calls, draws>>


\* Faulty variant: the walk descends only through a node whose actions all
\* have children already.
SelectGuardFullyExpanded(c, t, n, d) ==
  /\ Len(t[n].children) > 0
  /\ Len(t[n].children) >= Len(actions(t[n].state))
  /\ ~is_terminal(t[n].state)
  /\ d < c.max_depth

\* The condition of the selection loop.
SelectGuard(c, t, n, d) ==
  /\ Len(t[n].children) > 0
  /\ ~is_terminal(t[n].state)
  /\ d < c.max_depth

\* One turn of the selection loop.  _select_uct raising ValueError, or
\* returning None (then node.children[None] raises KeyError), ends the call.
SelectStep ==
  /\ pc = "select"
  /\ SelectGuard(cfg, tree, node, depth)
  /\ LET a == select_uct(tree, cfg.c_uct, node)
     IN IF a \in {None, "ValueError"}
          THEN /\ pc' = "raised"
               /\ err' = IF a = None THEN "KeyError" ELSE a
               /\ UNCHANGED <<node, path, depth>>
          ELSE /\ node' = ChildOf(tree[node], a)
               /\ path' = Append(path, ChildOf(tree[node], a))
               /\ depth' = depth + 1
               /\ UNCHANGED <<pc, err>>
  /\ UNCHANGED <<cfg, root_state, tree, iter, s, rdepth, total_return,
                 discount, value, best_a, calls, draws>>


\* Faulty variant: the depth cap is tested with <=.
ExpandGuardInclusive(c, t, n, d) == ~is_terminal(t[n].state) /\ d <= c.max_depth

\* The condition of the expansion.
ExpandGuard(c, t, n, d) == ~is_terminal(t[n].state) /\ d < c.max_depth

\* [a for a in actions if a not in node.children], in order.
Unexplored(acts, children) ==
  SelectSeq(acts, LAMBDA a : a \notin Keys(children))

SeqRange(sq) == {sq[i] : i \in 1..Len(sq)}



\* Faulty variant: the child is created without its parent edge.
AddChildNoParent(t, n, a, st) ==
  Append([t EXCEPT ![n].children = Append(@, <<a, Len(t) + 1>>)],
         Node(st, None))

\* Faulty variant: the child is created but never stored in node.children.
AddChildDetached(t, n, a, st) == Append(t, Node(st, <<n, a>>))

\* node.children[action] = child, with child the next Node created.
AddChild(t, n, a, st) ==
  Append([t EXCEPT ![n].children = Append(@, <<a, Len(t) + 1>>)],
         Node(st, <<n, a>>))

\* Entering _rollout(state, d): s, total_return, discount, depth.
RolloutEnter(st, d) ==
  /\ s' = st
  /\ rdepth' = d
  /\ total_return' = 0
  /\ discount' = Unit
  /\ pc' = "rollout"


\* Faulty variant: the reward of the expansion's transition starts the
\* return of the rollout.
ExpandChildKeepsReward ==
  /\ pc = "select"
  /\ ~SelectGuard(cfg, tree, node, depth)
  /\ ExpandGuard(cfg, tree, node, depth)
  /\ \E a \in SeqRange(Unexplored(actions(tree[node].state), tree[node].children)) :
       \E out \in sample_next_state_and_reward(tree[node].state, a) :
         /\ tree' = AddChild(tree, node, a, out[1])
         /\ path' = Append(path, Len(tree) + 1)
         /\ node' = Len(tree) + 1
         /\ depth' = depth + 1
         /\ s' = out[1]
         /\ rdepth' = depth + 1
         /\ total_return' = Unit * out[2]
         /\ discount' = Unit
         /\ pc' = "rollout"
  /\ draws' = draws + 2
  /\ UNCHANGED <<cfg, root_state, iter, value, best_a, err, calls>>

\* The selection loop has ended and the frontier gets a new child under an
\* unexplored action; the rollout starts at the child.
ExpandChild ==
  /\ pc = "select"
  /\ ~SelectGuard(cfg, tree, node, depth)
  /\ ExpandGuard(cfg, tree, node, depth)
  /\ \E a \in SeqRange(Unexplored(actions(tree[node].state), tree[node].children)) :
       \E out \in sample_next_state_and_reward(tree[node].state, a) :
         /\ tree' = AddChild(tree, node, a, out[1])
         /\ path' = Append(path, Len(tree) + 1)
         /\ node' = Len(tree) + 1
         /\ depth' = depth + 1
         /\ RolloutEnter(out[1], depth + 1)
  /\ draws' = draws + 2
  /\ UNCHANGED <<cfg, root_state, iter, value, best_a, err, calls>>

\* The selection loop has ended and nothing is expanded; the rollout starts
\* at the frontier.
ExpandSkip ==
  /\ pc = "select"
  /\ ~SelectGuard(cfg, tree, node, depth)
  /\ \/ ~ExpandGuard(cfg, tree, node, depth)
     \/ Unexplored(actions(tree[node].state), tree[node].children) = <<>>
  /\ RolloutEnter(tree[node].state, depth)
  /\ UNCHANGED <<cfg, root_state, tree, iter, node, path, depth, value,
                 best_a, err, calls, draws>>

(***************************************************************************)
(* MCTS._rollout                                                           *)
(***************************************************************************)
\* Faulty variant: the depth cap is tested with <=.
RolloutGuardInclusive(c, st, d) == ~is_terminal(st) /\ d <= c.max_depth

\* The condition of the rollout loop.
RolloutGuard(c, st, d) == ~is_terminal(st) /\ d < c.max_depth

\* One turn of the rollout loop that does not break.
RolloutStep ==
  /\ pc = "rollout"
  /\ RolloutGuard(cfg, s, rdepth)
  /\ \E a \in SeqRange(actions(s)) :
       \E out \in sample_next_state_and_reward(s, a) :
         /\ total_return' = total_return + discount * out[2]
         /\ s' = out[1]
  /\ discount' = (discount * cfg.gamma) \div 2
  /\ rdepth' = rdepth + 1
  /\ draws' = draws + 2
  /\ UNCHANGED <<cfg, root_state, tree, pc, iter, node, path, depth, value,
                 best_a, err, calls>>

\* The loop ends (its condition fails, or no action: break) and _rollout
\* returns total_return into value.
RolloutReturn ==
  /\ pc = "rollout"
  /\ ~RolloutGuard(cfg, s, rdepth) \/ actions(s) = <<>>
  /\ value' = total_return
  /\ pc' = "backprop"
  /\ UNCHANGED <<cfg, root_state, tree, iter, node, path, depth, s, rdepth,
                 total_return, discount, best_a, err, calls, draws>>

\* for n in path: n.visits += 1; n.value_sum += value, from item i on.
RECURSIVE BackpropFrom(_, _, _, _)
BackpropFrom(t, p, i, v) ==
  IF i > Len(p) THEN t
  ELSE BackpropFrom([t EXCEPT ![p[i]].visits = @ + 1,
                              ![p[i]].value_sum = @ + v], p, i + 1, v)

\* Faulty variant: the loop runs over path[1:], leaving the root out.
BackpropagateBelowRoot(t, p, v) == BackpropFrom(t, p, 2, v)


\* Faulty variant: every node above the frontier receives the value
\* discounted once more (halved).
RECURSIVE BackpropHalvedFrom(_, _, _, _)
BackpropHalvedFrom(t, p, i, v) ==
  IF i > Len(p) THEN t
  ELSE BackpropHalvedFrom(
         [t EXCEPT ![p[i]].visits = @ + 1,
                   ![p[i]].value_sum = @ + (IF i < Len(p) THEN v \div 2 ELSE v)],
         p, i + 1, v)

BackpropagateHalved(t, p, v) == BackpropHalvedFrom(t, p, 1, v)


\* Faulty variant: the loop runs over path[:-1], leaving the frontier out.
BackpropagateAboveFrontier(t, p, v) ==
  BackpropFrom(t, SubSeq(p, 1, Len(p) - 1), 1, v)

\* The whole loop over path.
Backpropagate(t, p, v) == BackpropFrom(t, p, 1, v)

Backprop ==
  /\ pc = "backprop"
  /\ tree' = Backpropagate(tree, path, value)
  /\ iter' = iter + 1
  /\ pc' = "for"
  /\ UNCHANGED <<cfg, root_state, node, path, depth, s, rdepth, total_return,
                 discount, value, best_a, err, calls, draws>>

(***************************************************************************)
(* Action extraction                                                       *)
(***************************************************************************)
\* for a, ch in root.children.items(): if ch.visits > best_v: ..., from
\* item i on; returns best_a.
RECURSIVE MostVisitedFrom(_, _, _, _)
MostVisitedFrom(t, i, b_a, b_v) ==
  IF i > Len(t[1].children) THEN b_a
  ELSE LET a == t[1].children[i][1]
           ch == t[t[1].children[i][2]]
       IN IF ch.visits > b_v
            THEN MostVisitedFrom(t, i + 1, a, ch.visits)
            ELSE MostVisitedFrom(t, i + 1, b_a, b_v)

\* Faulty variant: the comparison is >=, so the last child at the maximum wins.
RECURSIVE MostVisitedLastFrom(_, _, _, _)
MostVisitedLastFrom(t, i, b_a, b_v) ==
  IF i > Len(t[1].children) THEN b_a
  ELSE LET a == t[1].children[i][1]
           ch == t[t[1].children[i][2]]
       IN IF ch.visits >= b_v
            THEN MostVisitedLastFrom(t, i + 1, a, ch.visits)
            ELSE MostVisitedLastFrom(t, i + 1, b_a, b_v)

MostVisitedLast(t) == MostVisitedLastFrom(t, 1, None, -1)

MostVisited(t) == MostVisitedFrom(t, 1, None, -1)

\* Faulty variant: the last enumerated action.
LastAction(acts) == acts[Len(acts)]

\* best_a = actions[0]
FirstAction(acts) == acts[1]

\* The scan found a child: return best_a.
ExtractBest ==
  /\ pc = "extract"
  /\ MostVisited(tree) # None
  /\ best_a' = MostVisited(tree)
  /\ pc' = "returned"
  /\ UNCHANGED <<cfg, root_state, tree, iter, node, path, depth, s, rdepth,
                 total_return, discount, value, err, calls, draws>>

\* best_a is None and the root state enumerates actions: the first one.
ExtractFallback ==
  /\ pc = "extract"
  /\ MostVisited(tree) = None
  /\ actions(root_state) # <<>>
  /\ best_a' = FirstAction(actions(root_state))
  /\ pc' = "returned"
  /\ UNCHANGED <<cfg, root_state, tree, iter, node, path, depth, s, rdepth,
                 total_return, discount, value, err, calls, draws>>

\* Faulty variant: with no action to fall back on, None is returned.
ExtractReturnNone ==
  /\ pc = "extract"
  /\ MostVisited(tree) = None
  /\ actions(root_state) = <<>>
  /\ pc' = "returned"
  /\ UNCHANGED <<cfg, root_state, tree, iter, node, path, depth, s, rdepth,
                 total_return, discount, value, best_a, err, calls, draws>>

\* best_a is None and there is no action: RuntimeError("MCTS on terminal state").
ExtractRaise ==
  /\ pc = "extract"
  /\ MostVisited(tree) = None
  /\ actions(root_state) = <<>>
  /\ err' = "RuntimeError"
  /\ pc' = "raised"
  /\ UNCHANGED <<cfg, root_state, tree, iter, node, path, depth, s, rdepth,
                 total_return, discount, value, best_a, calls, draws>>

Next ==
  \/ MCTS_init
  \/ SearchCall
  \/ IterBegin
  \/ ForExit
  \/ SelectStep
  \/ ExpandChild
  \/ ExpandSkip
  \/ RolloutStep
  \/ RolloutReturn
  \/ Backprop
  \/ ExtractBest
  \/ ExtractFallback
  \/ ExtractRaise

Spec == Init /\ [][Next]_vars

\* search is one synchronous call: a step that can be taken is taken.
FairSpec == Spec /\ WF_vars(Next)

(***************************************************************************)
(* Action extraction on its own: lines 82-93 of search applied to any      *)
(* children mapping of the root, not only those the iterations build.      *)
(***************************************************************************)
ExtractKeys == {"A", "B", "C"}

\* The items <<action, visits>> of a root's children: distinct keys.
ChildItems ==
  {it \in UNION {[1..n -> ExtractKeys \X (0..MaxVisits)] : n \in 0..3} :
     \A i, j \in 1..Len(it) : i # j => it[i][1] # it[j][1]}

RECURSIVE SumVisits(_, _)
SumVisits(it, i) == IF i > Len(it) THEN 0 ELSE it[i][2] + SumVisits(it, i + 1)

\* The tree of a root in state st with the children of `it`.
TreeOf(st, it) ==
  [i \in 1..(Len(it) + 1) |->
     IF i = 1
       THEN [Node(st, None) EXCEPT
               !.children = [k \in 1..Len(it) |-> <<it[k][1], k + 1>>],
               !.visits = SumVisits(it, 1)]
       ELSE [Node(st, <<1, it[i - 1][1]>>) EXCEPT !.visits = it[i - 1][2]]]

InitExtract ==
  /\ cfg \in {c \in Configs : c.rollouts = 0 /\ c.max_depth = 0 /\ c.c_uct = 14 /\ c.gamma = 2}
  /\ root_state \in States
  /\ \E it \in ChildItems : tree = TreeOf(root_state, it)
  /\ pc = "extract"
  /\ iter = 0
  /\ node = 0
  /\ path = <<>>
  /\ depth = 0
  /\ s = None
  /\ rdepth = 0
  /\ total_return = 0
  /\ discount = 0
  /\ value = 0
  /\ best_a = None
  /\ err = None
  /\ calls = 1
  /\ draws = 0

NextExtract == ExtractBest \/ ExtractFallback \/ ExtractRaise

SpecExtract == InitExtract /\ [][NextExtract]_vars


(***************************************************************************)
(* Backpropagation on its own: lines 76-79 of search applied to a path of  *)
(* any tree of up to 4 nodes, branching ones included.                     *)
(***************************************************************************)
KeyNames == <<"A", "B", "C">>

\* The trees as parent vectors: node i >= 2 hangs below an earlier node.
Shapes ==
  {p \in UNION {[2..n -> 1..3] : n \in 2..4} : \A i \in DOMAIN p : p[i] < i}

\* The children of node i, in creation order.
KidsOf(p, i) ==
  SelectSeq([k \in 1..Cardinality(DOMAIN p) |-> k + 1], LAMBDA j : p[j] = i)

\* The key under which node j hangs below its parent.
KeyOf(p, j) == KeyNames[Cardinality({k \in DOMAIN p : k <= j /\ p[k] = p[j]})]

\* path from the root to node j.
RECURSIVE PathTo(_, _)
PathTo(p, j) == IF j = 1 THEN <<1>> ELSE Append(PathTo(p, p[j]), j)

\* The Nodes of shape p, all in state st, with <<visits, value_sum>> from stat.
ShapedTree(p, st, stat) ==
  [i \in 1..(Cardinality(DOMAIN p) + 1) |->
     [Node(st, IF i = 1 THEN None ELSE <<p[i], KeyOf(p, i)>>) EXCEPT
        !.children = [r \in 1..Len(KidsOf(p, i)) |->
                        <<KeyNames[r], KidsOf(p, i)[r]>>],
        !.visits = stat[i][1],
        !.value_sum = stat[i][2]]]

InitBackprop ==
  /\ cfg \in {c \in Configs : c.rollouts = MaxRollouts /\ c.max_depth = MaxDepth
                               /\ c.c_uct = 14 /\ c.gamma = 2}
  /\ root_state = "s4"
  /\ \E p \in Shapes :
       \E stat \in [1..(Cardinality(DOMAIN p) + 1) -> {0, MaxVisits} \X {0, Unit}] :
         \E e \in 1..(Cardinality(DOMAIN p) + 1) :
           /\ tree = ShapedTree(p, "s4", stat)
           /\ path = PathTo(p, e)
           /\ node = e
           /\ depth = Len(PathTo(p, e)) - 1
  /\ value \in {0 - Unit, 0, 3 * Unit}
  /\ pc = "backprop"
  /\ iter = 0
  /\ s = "s4"
  /\ rdepth = MaxDepth
  /\ total_return = value
  /\ discount = Unit
  /\ best_a = None
  /\ err = None
  /\ calls = 1
  /\ draws = 0

SpecBackprop == InitBackprop /\ [][Backprop]_vars


(***************************************************************************)
(* _select_uct on its own: one turn of the selection loop at a root with   *)
(* any non-empty children mapping and any visit count N >= 1 (the domain   *)
(* of the rule; with N = 0 and a visited child math.log raises).           *)
(***************************************************************************)
\* The tree of a root in state st with N visits and the children of `it`,
\* child k with value_sum vs[k].
UctTreeOf(st, N, it, vs) ==
  [i \in 1..(Len(it) + 1) |->
     IF i = 1
       THEN [TreeOf(st, it)[1] EXCEPT !.visits = N]
       ELSE [TreeOf(st, it)[i] EXCEPT !.value_sum = vs[i - 1]]]

InitUct ==
  /\ cfg \in {c \in Configs : c.rollouts = MaxRollouts /\ c.max_depth = MaxDepth
                               /\ c.gamma = 2}
  /\ root_state = "s5"
  /\ \E it \in ChildItems :
       /\ Len(it) > 0
       /\ \E N \in {1, MaxVisits + 1} :
            \E vs \in [1..Len(it) -> {0, Unit}] :
              tree = UctTreeOf("s5", N, it, vs)
  /\ pc = "select"
  /\ iter = 1
  /\ node = 1
  /\ path = <<1>>
  /\ depth = 0
  /\ s = "s5"
  /\ rdepth = 0
  /\ total_return = 0
  /\ discount = Unit
  /\ value = 0
  /\ best_a = None
  /\ err = None
  /\ calls = 1
  /\ draws = 0

SpecUct == InitUct /\ [][SelectStep]_vars

(***************************************************************************)
(* Properties.                                                             *)
(***************************************************************************)
Searching == calls > 0
Finished == pc \in {"returned", "raised"}
Root == tree[1]
RootActions == actions(root_state)

\* C1: search on a non-terminal root state with at least one action never
\* raises, the action it returns is one of actions(root_state), and with a
\* single action it is that action; for every configuration explored
\* (rollouts 0 and 1 included) and every outcome of the random draws.
C1_ReturnsRootAction ==
  (Searching /\ ~is_terminal(root_state) /\ RootActions # <<>>) =>
    /\ pc # "raised"
    /\ err = None
    /\ pc = "returned" =>
         /\ best_a \in SeqRange(RootActions)
         /\ Len(RootActions) = 1 => best_a = RootActions[1]

C1_Witness ==
  /\ pc = "returned"
  /\ root_state = "s4"
  /\ best_a = "A"
  /\ cfg.rollouts >= 2
  /\ cfg.max_depth >= 2
  /\ Len(tree) >= 3

\* C2: from the two-action root (A to a terminal state with reward 10, B to
\* a terminal state with reward 0), with rollouts >= 20, gamma = 1.0 and
\* max_depth >= 1, search returns A.
C2_ScenarioSelectsA ==
  (/\ pc = "returned"
   /\ root_state = "s0"
   /\ cfg.rollouts >= 20
   /\ cfg.gamma = 2
   /\ cfg.max_depth >= 1) => best_a = "A"

\* C3: in every search call, also a later one on the same planner, the
\* root's visit count is the number of completed iterations, and it is
\* exactly cfg.rollouts when the iterations have finished.
C3_RootVisits ==
  Searching =>
    /\ Root.visits = iter
    /\ pc \in {"extract", "returned", "raised"} => Root.visits = cfg.rollouts

C3_Witness ==
  /\ calls = 2
  /\ pc = "returned"
  /\ cfg.rollouts = MaxRollouts
  /\ Root.visits = MaxRollouts
  /\ Len(tree) >= 2

\* C5: search on a terminal root state ends in an error and returns no
\* action, whatever actions(root_state) enumerates there.
C5_TerminalRootRaises ==
  (Searching /\ is_terminal(root_state)) => (pc # "returned" /\ best_a = None)

\* C6: a configuration with rollouts <= 0, max_depth <= 0, gamma outside
\* (0, 1] or c_uct < 0 is rejected at construction: no iteration and no
\* action extraction runs under it.
InvalidConfig(c) ==
  \/ c.rollouts <= 0
  \/ c.max_depth <= 0
  \/ c.gamma <= 0
  \/ c.gamma > 2
  \/ c.c_uct < 0

C6_InvalidConfigRejected ==
  InvalidConfig(cfg) =>
    pc \notin {"select", "rollout", "backprop", "extract", "returned"}

\* C7: search on a non-terminal root state with no action never returns
\* an action and, when it ends, ends by raising; for every rollout budget
\* and max_depth.
C7_NoActionRootRaises ==
  (Searching /\ ~is_terminal(root_state) /\ RootActions = <<>>) =>
    /\ pc # "returned"
    /\ best_a = None
    /\ pc = "extract" => ENABLED ExtractRaise
    /\ pc = "raised" => err = "RuntimeError"

C7_Witness ==
  /\ pc = "raised"
  /\ err = "RuntimeError"
  /\ root_state = "s3"
  /\ cfg.rollouts >= 2
  /\ cfg.max_depth >= 1
  /\ Root.visits = cfg.rollouts

\* C8: when the iterations end with a root that has no children and
\* actions(root_state) is not empty, search returns the first action of
\* actions(root_state), and that step uses no random draw.
C8_FallbackFirstAction ==
  [][(pc = "extract" /\ Root.children = <<>> /\ RootActions # <<>>) =>
       (pc' = "returned" /\ best_a' = RootActions[1] /\ draws' = draws)]_vars

C8_Witness ==
  /\ pc = "returned"
  /\ Root.children = <<>>
  /\ root_state = "s5"
  /\ best_a = "B"
  /\ cfg.rollouts = 0

\* C9: when the root has at least one child, the action returned is a key
\* of the root's children whose child has the largest visit count, and
\* among the children at that largest count it is the first inserted.
C9_MostVisitedFirst ==
  (pc = "returned" /\ Len(Root.children) > 0) =>
    \E i \in 1..Len(Root.children) :
      /\ best_a = Root.children[i][1]
      /\ \A j \in 1..Len(Root.children) :
           /\ tree[Root.children[j][2]].visits <= tree[Root.children[i][2]].visits
           /\ j < i => tree[Root.children[j][2]].visits < tree[Root.children[i][2]].visits

C9_Witness ==
  /\ pc = "returned"
  /\ Len(Root.children) = 3
  /\ best_a = Root.children[2][1]
  /\ tree[Root.children[1][2]].visits < tree[Root.children[2][2]].visits
  /\ tree[Root.children[3][2]].visits = tree[Root.children[2][2]].visits

\* C10: every search call terminates, having run exactly cfg.rollouts
\* iterations; the selection loop of an iteration takes at most max_depth
\* steps and so does the rollout loop, also where no terminal state is
\* ever reached.
C10_Termination ==
  /\ (pc = "for") ~> Finished
  /\ [](Finished => iter = cfg.rollouts)
  /\ [](pc = "select" => depth <= cfg.max_depth)
  /\ [](pc \in {"rollout", "backprop"} => rdepth - depth <= cfg.max_depth)

C10_Witness ==
  /\ pc = "returned"
  /\ root_state = "s4"
  /\ cfg.rollouts = MaxRollouts
  /\ iter = MaxRollouts
  /\ cfg.max_depth = MaxDepth
  /\ rdepth = MaxDepth
  /\ ~is_terminal(s)

\* C11: at every point of a search call every node has at most one child
\* (the tree is one chain in creation order); once the first iteration of
\* a call with max_depth >= 1 on a non-terminal root with an action is
\* over, the root has exactly one child, the node that iteration created,
\* and the action returned is the one that expansion drew, whatever the
\* rewards.
C11_SingleChain ==
  Searching =>
    /\ \A i \in DOMAIN tree :
         /\ Len(tree[i].children) <= 1
         /\ Len(tree[i].children) = 1 => tree[i].children[1][2] = i + 1
    /\ (iter >= 1 /\ cfg.max_depth >= 1 /\ ~is_terminal(root_state)
          /\ RootActions # <<>>) =>
         /\ Len(Root.children) = 1
         /\ tree[2].parent = <<1, Root.children[1][1]>>
         /\ pc = "returned" => best_a = tree[2].parent[2]

C11_Witness ==
  /\ pc = "returned"
  /\ root_state = "s0"
  /\ cfg.rollouts = 20
  /\ cfg.gamma = 2
  /\ Len(Root.children) = 1
  /\ tree[2].state = "s2"
  /\ tree[2].visits = 20
  /\ best_a = "B"

\* The returns, in 1/Unit, a random rollout under configuration c may
\* collect from state st at depth d with the discount at disc.
RECURSIVE ReturnsFrom(_, _, _, _)
ReturnsFrom(c, st, d, disc) ==
  IF is_terminal(st) \/ d >= c.max_depth \/ actions(st) = <<>> THEN {0}
  ELSE UNION {UNION {{disc * out[2] + r :
                        r \in ReturnsFrom(c, out[1], d + 1, (disc * c.gamma) \div 2)} :
                     out \in sample_next_state_and_reward(st, a)} :
              a \in SeqRange(actions(st))}

\* C12: no reward sampled outside the rollout enters the backed-up value:
\* the rollout starts from a return of 0 whatever the expansion's
\* transition paid, the value backed up is a discounted sum of rewards of
\* a rollout from the frontier's state at the frontier's depth, and it is
\* 0 when the frontier is terminal or at max_depth.
C12_ValueIsRolloutReturn ==
  Searching =>
    /\ (pc = "rollout" /\ rdepth = depth) => (total_return = 0 /\ discount = Unit)
    /\ pc = "backprop" =>
         /\ value \in ReturnsFrom(cfg, tree[node].state, depth, Unit)
         /\ (is_terminal(tree[node].state) \/ depth >= cfg.max_depth) => value = 0

C12_Witness ==
  /\ pc = "backprop"
  /\ root_state = "s0"
  /\ tree[node].parent = <<1, "A">>
  /\ tree[node].state = "s1"
  /\ iter = 0
  /\ value = 0

\* path leads from the root to `node`, each step to a child, no node twice.
PathIsRootToFrontier ==
  /\ Len(path) >= 1
  /\ path[1] = 1
  /\ path[Len(path)] = node
  /\ \A i \in 1..Len(path) : \A j \in 1..Len(path) : path[i] = path[j] => i = j
  /\ \A i \in 2..Len(path) : tree[path[i]].parent[1] = path[i - 1]

\* C13: the backpropagation of an iteration adds 1 to visits and the same,
\* undiscounted value to value_sum of every node of the path (root through
\* frontier, each node once) and changes nothing else: no field of a node
\* off the path, and no state, children or parent of any node.
C13_BackpropFrame ==
  [][pc = "backprop" =>
       /\ PathIsRootToFrontier
       /\ DOMAIN tree' = DOMAIN tree
       /\ \A i \in DOMAIN tree :
            IF i \in SeqRange(path)
              THEN tree'[i] = [tree[i] EXCEPT !.visits = @ + 1,
                                              !.value_sum = @ + value]
              ELSE tree'[i] = tree[i]]_vars

C13_Witness ==
  /\ pc = "for"
  /\ iter = 1
  /\ Len(tree) = 4
  /\ Len(path) = 3
  /\ value = 3 * Unit
  /\ \A i \in SeqRange(path) : tree[i].visits = 1 /\ tree[i].value_sum = 3 * Unit
  /\ \E i \in DOMAIN tree :
       i \notin SeqRange(path) /\ tree[i].visits = MaxVisits /\ tree[i].value_sum = Unit

RECURSIVE SumChildVisits(_, _)
SumChildVisits(i, k) ==
  IF k > Len(tree[i].children) THEN 0
  ELSE tree[tree[i].children[k][2]].visits + SumChildVisits(i, k + 1)

\* C14: within one search call a node's visits counts the completed
\* iterations whose path contained it: a node starts at 0, a step changes
\* visits only by adding 1, and does so exactly at the backpropagation of
\* an iteration whose path holds the node.  So visits never decreases, and
\* between iterations every node but the root has visits >= 1 and every
\* node has at least the visits of its children together.
C14_VisitsCountPasses ==
  /\ [][/\ calls' # calls => (Len(tree') = 1 /\ tree'[1].visits = 0)
        /\ calls' = calls =>
             /\ \A i \in DOMAIN tree :
                  /\ i \in DOMAIN tree'
                  /\ tree'[i].visits =
                       tree[i].visits
                         + (IF pc = "backprop" /\ i \in SeqRange(path) THEN 1 ELSE 0)
             /\ \A i \in DOMAIN tree' \ DOMAIN tree : tree'[i].visits = 0]_vars
  /\ [](Searching => \A i \in DOMAIN tree : tree[i].visits >= SumChildVisits(i, 1))
  /\ []((Searching /\ pc \in {"for", "extract", "returned", "raised"}) =>
          \A i \in DOMAIN tree : i # 1 => tree[i].visits >= 1)

C14_Witness ==
  /\ pc = "returned"
  /\ iter = MaxRollouts
  /\ Len(tree) >= 3
  /\ tree[1].visits = iter
  /\ tree[2].visits = iter
  /\ tree[3].visits = iter - 1

\* The number of edges between the root and node i.
RECURSIVE NodeDepth(_)
NodeDepth(i) == IF tree[i].parent = None THEN 0 ELSE 1 + NodeDepth(tree[i].parent[1])

\* C15: max_depth caps the walk and the rollout together: in an iteration
\* depth counts the selection steps and the expansion step (the edges of
\* path), the rollout continues from that count, and the total never
\* exceeds max_depth; no node lies deeper than max_depth.  With
\* max_depth = 1 nothing goes past depth 1.
C15_DepthCap ==
  Searching =>
    /\ pc \in {"select", "rollout", "backprop"} =>
         /\ depth = Len(path) - 1
         /\ depth <= cfg.max_depth
    /\ pc \in {"rollout", "backprop"} =>
         /\ depth <= rdepth
         /\ rdepth <= cfg.max_depth
    /\ \A i \in DOMAIN tree : NodeDepth(i) <= cfg.max_depth

C15_Witness ==
  /\ pc = "backprop"
  /\ cfg.max_depth = MaxDepth
  /\ iter = 1
  /\ depth = MaxDepth - 1
  /\ Len(tree) = MaxDepth
  /\ rdepth = MaxDepth
  /\ ~is_terminal(s)
  /\ actions(s) # <<>>

\* C16: the step that ends the selection creates exactly one node, as a
\* child of the frontier under an enumerable action that was no key of its
\* children, when the frontier is not terminal, below max_depth and has an
\* unexplored action, and creates none otherwise; no other step of an
\* iteration (selection, rollout, backpropagation) creates a node.  So the
\* tree has at most 1 + k nodes after k iterations, and every key of a
\* node's children is an action enumerable at the node's state.
C16_NodeCreation ==
  /\ [][(calls' = calls /\ pc = "select" /\ ~SelectGuard(cfg, tree, node, depth)) =>
          IF /\ ExpandGuard(cfg, tree, node, depth)
             /\ Unexplored(actions(tree[node].state), tree[node].children) # <<>>
            THEN /\ Len(tree') = Len(tree) + 1
                 /\ \E a \in SeqRange(actions(tree[node].state)) :
                      /\ a \notin Keys(tree[node].children)
                      /\ tree'[node] =
                           [tree[node] EXCEPT !.children = Append(@, <<a, Len(tree) + 1>>)]
                      /\ tree'[Len(tree) + 1].parent = <<node, a>>
                      /\ tree'[Len(tree) + 1].children = <<>>
                      /\ \E out \in sample_next_state_and_reward(tree[node].state, a) :
                           tree'[Len(tree) + 1].state = out[1]
                 /\ \A i \in DOMAIN tree : i # node => tree'[i] = tree[i]
            ELSE tree' = tree]_vars
  /\ [][(calls' = calls /\ (pc # "select" \/ SelectGuard(cfg, tree, node, depth))) =>
          Len(tree') = Len(tree)]_vars
  /\ [](Searching =>
          Len(tree) <= 1 + iter + (IF pc \in {"rollout", "backprop"} THEN 1 ELSE 0))
  /\ [](Searching =>
          \A i \in DOMAIN tree :
            Keys(tree[i].children) \subseteq SeqRange(actions(tree[i].state)))

C16_Witness ==
  /\ pc = "for"
  /\ iter = MaxRollouts
  /\ cfg.max_depth = MaxDepth
  /\ Len(tree) = 1 + MaxRollouts
  /\ tree[Len(tree)].parent[1] = Len(tree) - 1

\* C17: whenever the selection loop applies _select_uct at a node, the
\* node's visits is >= 1 and so is the visits of each of its children:
\* ln(N) and the division by n_c are defined, and no call ends in the
\* ValueError of math.log(0) or a division by zero.
C17_UctDefined ==
  Searching =>
    /\ (pc = "select" /\ SelectGuard(cfg, tree, node, depth)) =>
         /\ tree[node].visits >= 1
         /\ \A k \in 1..Len(tree[node].children) :
              tree[tree[node].children[k][2]].visits >= 1
         /\ select_uct(tree, cfg.c_uct, node) \in Keys(tree[node].children)
    /\ err \notin {"ValueError", "KeyError", "ZeroDivisionError"}

C17_Witness ==
  /\ pc = "select"
  /\ SelectGuard(cfg, tree, node, depth)
  /\ depth = 1
  /\ iter = 2
  /\ tree[1].visits = 2
  /\ tree[node].visits = 2
  /\ tree[tree[node].children[1][2]].visits = 1

\* The visits and the score of the root's k-th child.
KidVisits(k) == tree[Root.children[k][2]].visits
KidScore(k) == UctScore(cfg.c_uct, Root, tree[Root.children[k][2]])

\* C18: _select_uct on a non-empty children mapping: if some child has
\* visits 0 the child selected has visits 0 and is the first such in
\* insertion order; otherwise the child selected has the highest score and
\* is the first in insertion order among those with that score.
C18_UctRule ==
  /\ pc # "raised"
  /\ (pc = "select" /\ Len(path) = 2 /\ path[1] = 1) =>
       \E i \in 1..Len(Root.children) :
         /\ Root.children[i][2] = node
         /\ IF \E k \in 1..Len(Root.children) : KidVisits(k) = 0
              THEN /\ KidVisits(i) = 0
                   /\ \A j \in 1..(i - 1) : KidVisits(j) # 0
              ELSE \A j \in 1..Len(Root.children) :
                     /\ KidScore(j) <= KidScore(i)
                     /\ j < i => KidScore(j) < KidScore(i)

C18_Witness ==
  /\ pc = "select"
  /\ Len(path) = 2
  /\ Len(Root.children) = 3
  /\ \A k \in 1..3 : KidVisits(k) >= 1
  /\ node = Root.children[2][2]
  /\ KidScore(1) < KidScore(2)
  /\ KidScore(3) = KidScore(2)

\* The nodes reached from node i by following children edges.
RECURSIVE Descendants(_)
Descendants(i) ==
  {i} \cup UNION {Descendants(tree[i].children[k][2]) :
                    k \in 1..Len(tree[i].children)}

\* C19: in every state of a search call the tree has exactly one root (the
\* only node without a parent edge), every other node n carries a parent
\* edge (p, a) with p.children[a] being n, and every node is reached from
\* the root through children; a node's state never changes once the node
\* exists, and a selection step moves to the stored child without
\* sampling a transition.
C19_TreeShape ==
  /\ [](Searching =>
          /\ Len(tree) >= 1
          /\ \A i \in DOMAIN tree : (tree[i].parent = None) <=> (i = 1)
          /\ \A i \in DOMAIN tree :
               \A j, k \in 1..Len(tree[i].children) :
                 tree[i].children[j][1] = tree[i].children[k][1] => j = k
          /\ \A i \in DOMAIN tree \ {1} :
               /\ tree[i].parent[1] \in DOMAIN tree
               /\ tree[i].parent[2] \in Keys(tree[tree[i].parent[1]].children)
               /\ ChildOf(tree[tree[i].parent[1]], tree[i].parent[2]) = i
          /\ Descendants(1) = DOMAIN tree)
  /\ [][calls' = calls =>
          \A i \in DOMAIN tree :
            i \in DOMAIN tree' /\ tree'[i].state = tree[i].state]_vars
  /\ [][(pc = "select" /\ SelectGuard(cfg, tree, node, depth)) =>
          /\ tree' = tree
          /\ draws' = draws
          /\ \E k \in 1..Len(tree[node].children) :
               node' = tree[node].children[k][2]]_vars

C19_Witness ==
  /\ pc = "returned"
  /\ root_state = "s4"
  /\ iter = MaxRollouts
  /\ Len(tree) = 1 + MaxRollouts
  /\ tree[2].state = "s5"
  /\ tree[2].visits = MaxRollouts
  /\ tree[3].parent = <<2, "B">>

=============================================================================
